---- MODULE Spec2Model ----
(***************************************************************************)
(* Low-stock alert endpoint of the inventory case study:                   *)
(*   router      GET /companies/:companyId/alerts/low-stock                *)
(*   controller  getLowStockAlerts(req, res)                               *)
(*   service     fetchLowStockAlerts(companyId)                            *)
(* The store (warehouses, products, inventory, sales, suppliers) is read   *)
(* only.  Every call of the endpoint is a process whose position (pc) is   *)
(* the await it is suspended on; one action is the code that runs from one *)
(* await to the next.                                                      *)
(***************************************************************************)
EXTENDS Integers, Sequences, FiniteSets, TLC

(***************************************************************************)
(* Bounds of the model.                                                    *)
(***************************************************************************)
NumCompanies == 2
NumWarehouses == 2
NumProducts == 2
NumSuppliers == 1
MaxInventory == 2
MaxSales == 2

(***************************************************************************)
(* Program constants.                                                      *)
(***************************************************************************)
\* "Recent sales activity means sales within the last 30 days"
WindowDays == 30
\* threshold policy table: simple -> 20, bundle -> 10
ThresholdSimple == 20
ThresholdBundle == 10
\* res.json() answers with the default status
StatusOk == 200

CompanyIds == 1 .. NumCompanies
WarehouseIds == 1 .. NumWarehouses
ProductIds == 1 .. NumProducts
SupplierIds == 1 .. NumSuppliers
\* inventory.quantity values: zero, low, and the two thresholds themselves
Quantities == {0, 5, ThresholdBundle, ThresholdSimple}
\* units of one sale
SaleQuantities == {0, 3, 7}
\* age in days, at evaluation time, of a sale on the first day of the window
\* and of a sale one day older than the window
SaleAges == {WindowDays, WindowDays + 1}

(***************************************************************************)
(* Nullable values: null is the empty sequence, a value v is <<v>>.        *)
(***************************************************************************)
Null == << >>
Some(v) == << v >>
Val(o) == o[1]

(***************************************************************************)
(* The :companyId path parameter is a string: either the decimal numeral   *)
(* of an integer (numeric, value) or some other text (malformed).          *)
(***************************************************************************)
Malformed == [numeric |-> FALSE, value |-> 0]
NumericParam(n) == [numeric |-> TRUE, value |-> n]
\* every existing company, one company id that does not exist, and "abc"
RouteParams == {NumericParam(n) : n \in 1 .. NumCompanies + 1} \cup {Malformed}

VARIABLES
    Warehouse,         \* warehouses table: id -> row
    Product,           \* products table: id -> row
    Inventory,         \* inventory table: set of rows, (product, warehouse) unique
    Sales,             \* sales history: set of rows
    ProductSuppliers,  \* product_suppliers: set of <<product_id, supplier_id>>
    calls              \* the requests in flight: call id -> frame

store == << Warehouse, Product, Inventory, Sales, ProductSuppliers >>
vars == << Warehouse, Product, Inventory, Sales, ProductSuppliers, calls >>

Supplier(s) == [id |-> s, name |-> << "supplier", s >>,
                contact_email |-> << "orders", s >>]

(***************************************************************************)
(* Sets, sequences.                                                        *)
(***************************************************************************)
Range(f) == {f[i] : i \in DOMAIN f}
\* every sequence that lists the elements of S once each
Orderings(S) ==
    {f \in [1 .. Cardinality(S) -> S] : Range(f) = S}
\* the subsets of S of at most n elements
RECURSIVE SetsUpTo(_, _)
SetsUpTo(S, n) ==
    IF n = 0 THEN {{}}
    ELSE LET T == SetsUpTo(S, n - 1)
         IN T \cup {t \cup {x} : t \in T, x \in S}

RECURSIVE SumSold(_)
SumSold(S) ==
    IF S = {} THEN 0
    ELSE LET r == CHOOSE x \in S : TRUE
         IN r.quantity_sold + SumSold(S \ {r})

(***************************************************************************)
(* The store after construction: any contents within the bounds that the   *)
(* schema allows (foreign keys resolve, (product, warehouse) is unique in  *)
(* inventory, quantities are non-negative).  Company ids are assigned in   *)
(* the order of the warehouses (warehouse w belongs to a company <= w),    *)
(* the catalogue is fixed, and only stocked pairs have sales.              *)
(***************************************************************************)
WarehouseRow(w, c) == [id |-> w, company_id |-> c, name |-> << "warehouse", w >>]
ProductRow(p, t) == [id |-> p, name |-> << "product", p >>, sku |-> << "sku", p >>,
                     product_type |-> t]
\* the catalogue alternates the two product types
CatalogueType(p) == IF p % 2 = 1 THEN "simple" ELSE "bundle"
InventoryRows == [product_id : ProductIds, warehouse_id : WarehouseIds,
                  quantity : Quantities]
\* the sales a store may hold of the pairs stocked in I: any quantity inside
\* the window, one quantity outside it (where the quantity is never read)
SalesRows(I) ==
    {s \in [product_id : ProductIds, warehouse_id : WarehouseIds,
            quantity_sold : SaleQuantities, sold_days_ago : SaleAges] :
        /\ \E r \in I : r.product_id = s.product_id /\ r.warehouse_id = s.warehouse_id
        /\ s.sold_days_ago > WindowDays => s.quantity_sold = 7}
UniquePairs(I) ==
    \A a, b \in I :
        (a.product_id = b.product_id /\ a.warehouse_id = b.warehouse_id) => a = b

IdleFrame ==
    [pc |-> "idle", companyId |-> Null, warehouses |-> << >>, wi |-> 0,
     inventories |-> << >>, ii |-> 0, alerts |-> << >>, threshold |-> 0,
     daysUntilStockout |-> Null, lookups |-> << >>, failed |-> "",
     response |-> Null]

InitStore ==
    /\ Warehouse \in {[w \in WarehouseIds |-> WarehouseRow(w, f[w])] :
                        f \in {g \in [WarehouseIds -> CompanyIds] :
                                  \A w \in WarehouseIds : g[w] <= w}}
    /\ Product = [p \in ProductIds |-> ProductRow(p, CatalogueType(p))]
    /\ Inventory \in {I \in SetsUpTo(InventoryRows, MaxInventory) : UniquePairs(I)}
    /\ Sales \in SetsUpTo(SalesRows(Inventory), MaxSales)
    /\ ProductSuppliers \in SUBSET (ProductIds \X SupplierIds)

Init ==
    /\ InitStore
    /\ calls = [c \in {1} |-> IdleFrame]

(***************************************************************************)
(* Data access.                                                            *)
(***************************************************************************)
\* Warehouse.findAll({ where: { company_id: companyId } }): the rows of the
\* company, in the order the database returns them.  A parameter that is no
\* number equals no company_id.
\* (fault seed: the where clause is dropped)
WarehouseFindAllMutant(companyId) ==
    Orderings({Warehouse[w] : w \in WarehouseIds})
WarehouseFindAll(companyId) ==
    Orderings({Warehouse[w] : w \in
        {x \in WarehouseIds : companyId.numeric
                               /\ Warehouse[x].company_id = companyId.value}})

\* Inventory.findAll({ where: { warehouse_id }, include: [Product] })
InventoryFindAll(warehouseId) ==
    Orderings({[quantity |-> r.quantity, Product |-> Product[r.product_id]] :
                 r \in {x \in Inventory : x.warehouse_id = warehouseId}})

\* getThresholdByProductType: the threshold policy table
GetThresholdByProductType(productType) ==
    CASE productType = "simple" -> ThresholdSimple
      [] productType = "bundle" -> ThresholdBundle

\* the sales of the pair inside the trailing window: from now - 30 days
\* (inclusive) to now, future-dated rows excluded
WindowSales(productId, warehouseId) ==
    {s \in Sales : /\ s.product_id = productId
                   /\ s.warehouse_id = warehouseId
                   /\ s.sold_days_ago >= 0
                   /\ s.sold_days_ago <= WindowDays}

\* hasRecentSalesActivity: at least one sale of the pair in the window
HasRecentSalesActivity(productId, warehouseId) ==
    WindowSales(productId, warehouseId) # {}

\* getAverageDailySales: total_quantity_sold / 30, kept as the fraction
\* num / den
GetAverageDailySales(productId, warehouseId) ==
    [num |-> SumSold(WindowSales(productId, warehouseId)), den |-> WindowDays]

\* getSupplierForProduct: the supplier of lowest id, null when there is none
GetSupplierForProduct(productId) ==
    LET S == {s \in SupplierIds : << productId, s >> \in ProductSuppliers}
    IN IF S = {} THEN Null
       ELSE Some(Supplier(CHOOSE s \in S : \A t \in S : s <= t))

(***************************************************************************)
(* fetchLowStockAlerts, the code between its awaits.                       *)
(***************************************************************************)
\* if (item.quantity >= threshold) continue;
\* (fault seed: > for >=)
StockGateSkipsMutant(quantity, threshold) == quantity > threshold
StockGateSkips(quantity, threshold) == quantity >= threshold

\* if (!hasRecentSales) continue;
\* (fault seed: the gate is dropped)
RecencyGateSkipsMutant(hasRecentSales) == FALSE
RecencyGateSkips(hasRecentSales) == ~hasRecentSales

\* avgDailySales > 0 ? Math.floor(item.quantity / avgDailySales) : null
\* quantity / (num / den) = quantity * den / num; below either threshold the
\* double-precision quotient has the same floor as the exact one.
\* (fault seed: Math.ceil for Math.floor)
DaysUntilStockoutMutant(quantity, avgDailySales) ==
    IF avgDailySales.num > 0
    THEN Some((quantity * avgDailySales.den + avgDailySales.num - 1)
                \div avgDailySales.num)
    ELSE Null
DaysUntilStockout(quantity, avgDailySales) ==
    IF avgDailySales.num > 0
    THEN Some((quantity * avgDailySales.den) \div avgDailySales.num)
    ELSE Null

\* alerts.push({ ... })
\* (fault seed: a null supplier is left out of the object)
MakeAlertMutant(item, warehouse, threshold, daysUntilStockout, supplier) ==
    LET alert == [product_id |-> item.Product.id,
                  product_name |-> item.Product.name,
                  sku |-> item.Product.sku,
                  warehouse_id |-> warehouse.id,
                  warehouse_name |-> warehouse.name,
                  current_stock |-> item.quantity,
                  threshold |-> threshold,
                  days_until_stockout |-> daysUntilStockout]
    IN IF supplier = Null THEN alert
       ELSE [f \in DOMAIN alert \cup {"supplier"} |->
                IF f = "supplier" THEN supplier ELSE alert[f]]
MakeAlert(item, warehouse, threshold, daysUntilStockout, supplier) ==
    [product_id |-> item.Product.id,
     product_name |-> item.Product.name,
     sku |-> item.Product.sku,
     warehouse_id |-> warehouse.id,
     warehouse_name |-> warehouse.name,
     current_stock |-> item.quantity,
     threshold |-> threshold,
     days_until_stockout |-> daysUntilStockout,
     supplier |-> supplier]

(***************************************************************************)
(* The frame of a call.                                                    *)
(***************************************************************************)
Awaiting == {"awaitWarehouses", "awaitInventories", "awaitHasRecentSales",
             "awaitAverageDailySales", "awaitSupplier"}
Set(c, f) == calls' = [calls EXCEPT ![c] = f]
\* the loop variables of the call: `warehouse` and `item`
CurWarehouse(f) == f.warehouses[f.wi]
CurItem(f) == f.inventories[f.ii]
\* the next iteration of `for (const item of inventories)`
NextItem(f) ==
    [f EXCEPT !.pc = "forItem", !.ii = f.ii + 1, !.threshold = 0,
              !.daysUntilStockout = Null]

(***************************************************************************)
(* router + controller: a GET arrives, getLowStockAlerts reads             *)
(* req.params.companyId and calls fetchLowStockAlerts, which issues the    *)
(* warehouse query and suspends.                                           *)
(***************************************************************************)
GetLowStockAlerts(c, param) ==
    /\ calls[c].pc = "idle"
    /\ Set(c, [calls[c] EXCEPT !.pc = "awaitWarehouses",
                               !.companyId = Some(param),
                               !.lookups = Append(@, << "warehouses" >>)])
    /\ UNCHANGED store

\* const warehouses = await ...; const alerts = [];
\* (fault seed: an empty warehouse list is thrown as not found)
WarehousesResolveMutant(c) ==
    /\ calls[c].pc = "awaitWarehouses"
    /\ \E rows \in WarehouseFindAll(Val(calls[c].companyId)) :
           IF rows = << >>
           THEN Set(c, [calls[c] EXCEPT !.pc = "rejected", !.failed = "notFound"])
           ELSE Set(c, [calls[c] EXCEPT !.pc = "forWarehouse", !.warehouses = rows,
                                        !.wi = 1, !.alerts = << >>])
    /\ UNCHANGED store
WarehousesResolve(c) ==
    /\ calls[c].pc = "awaitWarehouses"
    /\ \E rows \in WarehouseFindAll(Val(calls[c].companyId)) :
           Set(c, [calls[c] EXCEPT !.pc = "forWarehouse", !.warehouses = rows,
                                   !.wi = 1, !.alerts = << >>])
    /\ UNCHANGED store

\* for (const warehouse of warehouses): either the loop is over and the
\* function returns alerts, or the inventory query of the warehouse is issued
ForWarehouse(c) ==
    LET f == calls[c] IN
    /\ f.pc = "forWarehouse"
    /\ IF f.wi > Len(f.warehouses)
       THEN Set(c, [f EXCEPT !.pc = "returned"])
       ELSE Set(c, [f EXCEPT !.pc = "awaitInventories",
                             !.lookups = Append(@, << "inventory",
                                                      CurWarehouse(f).id >>)])
    /\ UNCHANGED store

\* const inventories = await Inventory.findAll(...)
InventoriesResolve(c) ==
    /\ calls[c].pc = "awaitInventories"
    /\ \E rows \in InventoryFindAll(CurWarehouse(calls[c]).id) :
           Set(c, [calls[c] EXCEPT !.pc = "forItem", !.inventories = rows,
                                   !.ii = 1])
    /\ UNCHANGED store

\* for (const item of inventories): threshold, stock gate, and the call of
\* hasRecentSalesActivity
ForItem(c) ==
    LET f == calls[c] IN
    /\ f.pc = "forItem"
    /\ IF f.ii > Len(f.inventories)
       THEN Set(c, [f EXCEPT !.pc = "forWarehouse", !.wi = f.wi + 1,
                             !.inventories = << >>, !.ii = 0])
       ELSE LET item == CurItem(f)
                threshold == GetThresholdByProductType(item.Product.product_type)
            IN IF StockGateSkips(item.quantity, threshold)
               THEN Set(c, NextItem(f))
               ELSE Set(c, [f EXCEPT !.pc = "awaitHasRecentSales",
                                     !.threshold = threshold,
                                     !.lookups = Append(@, << "sales", item.Product.id,
                                                              CurWarehouse(f).id >>)])
    /\ UNCHANGED store

\* const hasRecentSales = await ...; recency gate; call of getAverageDailySales
HasRecentSalesResolves(c) ==
    LET f == calls[c] IN
    /\ f.pc = "awaitHasRecentSales"
    /\ IF RecencyGateSkips(HasRecentSalesActivity(CurItem(f).Product.id,
                                                  CurWarehouse(f).id))
       THEN Set(c, NextItem(f))
       ELSE Set(c, [f EXCEPT !.pc = "awaitAverageDailySales",
                             !.lookups = Append(@, << "average", CurItem(f).Product.id,
                                                      CurWarehouse(f).id >>)])
    /\ UNCHANGED store

\* const avgDailySales = await ...; daysUntilStockout; call of
\* getSupplierForProduct
AverageDailySalesResolves(c) ==
    LET f == calls[c] IN
    /\ f.pc = "awaitAverageDailySales"
    /\ Set(c, [f EXCEPT !.pc = "awaitSupplier",
                        !.daysUntilStockout =
                            DaysUntilStockout(CurItem(f).quantity,
                                GetAverageDailySales(CurItem(f).Product.id,
                                                     CurWarehouse(f).id)),
                        !.lookups = Append(@, << "supplier", CurItem(f).Product.id >>)])
    /\ UNCHANGED store

\* const supplier = await ...; alerts.push({...})
\* (fault seed: `alerts` is one array at module level, shared by the calls)
SupplierResolvesMutant(c) ==
    LET f == calls[c]
        alert == MakeAlert(CurItem(f), CurWarehouse(f), f.threshold,
                           f.daysUntilStockout,
                           GetSupplierForProduct(CurItem(f).Product.id))
    IN
    /\ f.pc = "awaitSupplier"
    /\ calls' = [d \in DOMAIN calls |->
                    IF d = c THEN NextItem([f EXCEPT !.alerts = Append(@, alert)])
                    ELSE [calls[d] EXCEPT !.alerts = Append(@, alert)]]
    /\ UNCHANGED store
SupplierResolves(c) ==
    LET f == calls[c] IN
    /\ f.pc = "awaitSupplier"
    /\ Set(c, NextItem([f EXCEPT !.alerts =
            Append(@, MakeAlert(CurItem(f), CurWarehouse(f), f.threshold,
                                f.daysUntilStockout,
                                GetSupplierForProduct(CurItem(f).Product.id)))]))
    /\ UNCHANGED store

\* an awaited lookup fails: nothing in fetchLowStockAlerts or in the
\* controller catches, so both promises reject and res.json is never reached.
\* The app installs no error middleware: the rejection of the handler either
\* stays unhandled and the request is never answered, or the framework's
\* default error handler answers 500 with its own error page.
DefaultErrorResponse ==
    [status |-> 500, body |-> [html |-> "Internal Server Error"]]
LookupKind(pc) ==
    CASE pc = "awaitWarehouses" -> "warehouses"
      [] pc = "awaitInventories" -> "inventory"
      [] pc = "awaitHasRecentSales" -> "sales"
      [] pc = "awaitAverageDailySales" -> "sales"
      [] pc = "awaitSupplier" -> "supplier"
LookupRejects(c) ==
    /\ calls[c].pc \in Awaiting
    /\ \E answer \in {Null, Some(DefaultErrorResponse)} :
           Set(c, [calls[c] EXCEPT !.pc = "rejected",
                                   !.failed = LookupKind(calls[c].pc),
                                   !.response = answer])
    /\ UNCHANGED store

\* return res.json({ alerts, total_alerts: alerts.length })
\* (fault seed: total_alerts counts distinct products)
ResponseBodyMutant(alerts) ==
    [alerts |-> alerts,
     total_alerts |-> Cardinality({alerts[i].product_id : i \in DOMAIN alerts})]
ResponseBody(alerts) == [alerts |-> alerts, total_alerts |-> Len(alerts)]
Respond(c) ==
    /\ calls[c].pc = "returned"
    /\ Set(c, [calls[c] EXCEPT !.pc = "responded",
                               !.response = Some([status |-> StatusOk,
                                                  body |-> ResponseBody(calls[c].alerts)])])
    /\ UNCHANGED store

Next ==
    \/ \E c \in DOMAIN calls, param \in RouteParams : GetLowStockAlerts(c, param)
    \/ \E c \in DOMAIN calls : WarehousesResolve(c)
    \/ \E c \in DOMAIN calls : ForWarehouse(c)
    \/ \E c \in DOMAIN calls : InventoriesResolve(c)
    \/ \E c \in DOMAIN calls : ForItem(c)
    \/ \E c \in DOMAIN calls : HasRecentSalesResolves(c)
    \/ \E c \in DOMAIN calls : AverageDailySalesResolves(c)
    \/ \E c \in DOMAIN calls : SupplierResolves(c)
    \/ \E c \in DOMAIN calls : LookupRejects(c)
    \/ \E c \in DOMAIN calls : Respond(c)

Spec == Init /\ [][Next]_vars

(***************************************************************************)
(* Two requests in flight at once.  Node runs one handler at a time and    *)
(* switches between calls at their awaits, which is where the actions of   *)
(* Next begin and end, so the interleavings of Next are the interleavings  *)
(* of the calls.  The store is one of those of InitStore in which every    *)
(* warehouse belongs to the company of its own id, a stocked quantity is 5 *)
(* or 20, and every sale is of 3 units on the first day of the window.     *)
(***************************************************************************)
NumCalls == 2
InitConcurrent ==
    /\ InitStore
    /\ \A w \in WarehouseIds : Warehouse[w].company_id = w
    /\ \A r \in Inventory : r.quantity \in {5, ThresholdSimple}
    /\ \A x \in Sales : x.quantity_sold = 3 /\ x.sold_days_ago = WindowDays
    /\ calls = [c \in 1 .. NumCalls |-> IdleFrame]

SpecConcurrent == InitConcurrent /\ [][Next]_vars

(***************************************************************************)
(* What the store says, independently of any call.                         *)
(***************************************************************************)
\* the calls that hold a result of fetchLowStockAlerts
HasResult(f) == f.pc \in {"returned", "responded"}
Param(f) == Val(f.companyId)
\* the warehouse belongs to the company the parameter names
OwnedBy(w, param) == param.numeric /\ Warehouse[w].company_id = param.value
\* units sold of the pair in the trailing window, and whether any sale is in it
RecentSales(r) ==
    {s \in Sales : /\ s.product_id = r.product_id
                   /\ s.warehouse_id = r.warehouse_id
                   /\ s.sold_days_ago \in 0 .. WindowDays}
TotalSold(r) == SumSold(RecentSales(r))
ThresholdOf(r) == GetThresholdByProductType(Product[r.product_id].product_type)
\* the three gates of an inventory row for a request of `param`
Qualifies(r, param) ==
    /\ OwnedBy(r.warehouse_id, param)
    /\ r.quantity < ThresholdOf(r)
    /\ RecentSales(r) # {}
Pair(r) == << r.product_id, r.warehouse_id >>
QualifyingPairs(param) == {Pair(r) : r \in {x \in Inventory : Qualifies(x, param)}}
AlertsOf(f, r) ==
    {i \in DOMAIN f.alerts : /\ f.alerts[i].product_id = r.product_id
                             /\ f.alerts[i].warehouse_id = r.warehouse_id}
AlertPairs(f) == {Pair(f.alerts[i]) : i \in DOMAIN f.alerts}
Issued(f, kind) == {i \in DOMAIN f.lookups : f.lookups[i][1] = kind}

(***************************************************************************)
(* C1: the result of fetchLowStockAlerts(companyId) holds an alert for a   *)
(* (product, warehouse) pair if and only if the pair's inventory row is in *)
(* a warehouse of the company, its quantity is below the threshold of its  *)
(* product type and the pair has a sale in the trailing 30 days; a         *)
(* qualifying pair has exactly one alert.                                  *)
(***************************************************************************)
C1_AlertIffAllGates ==
    \A c \in DOMAIN calls :
        HasResult(calls[c]) =>
            /\ AlertPairs(calls[c]) = QualifyingPairs(Param(calls[c]))
            /\ Len(calls[c].alerts) = Cardinality(QualifyingPairs(Param(calls[c])))

\* a result with an alert, for a store that also holds a row that fails a
\* gate
C1_Witness ==
    \E c \in DOMAIN calls :
        /\ HasResult(calls[c])
        /\ Len(calls[c].alerts) >= 1
        /\ \E r \in Inventory : ~Qualifies(r, Param(calls[c]))

(***************************************************************************)
(* C2: an inventory row whose quantity equals or exceeds the threshold of  *)
(* its product type never has an alert, whatever its sales.                *)
(***************************************************************************)
C2_NoAlertAtThreshold ==
    \A c \in DOMAIN calls : \A r \in Inventory :
        r.quantity >= ThresholdOf(r) => AlertsOf(calls[c], r) = {}

\* a finished request of the owning company over a row that sits exactly on
\* its threshold and has recent sales
C2_Witness ==
    \E c \in DOMAIN calls : \E r \in Inventory :
        /\ HasResult(calls[c])
        /\ OwnedBy(r.warehouse_id, Param(calls[c]))
        /\ r.quantity = ThresholdOf(r)
        /\ RecentSales(r) # {}
        /\ AlertsOf(calls[c], r) = {}

(***************************************************************************)
(* C3: a pair without a sale in the trailing window never has an alert,    *)
(* even when its stock is zero.                                            *)
(***************************************************************************)
C3_NoAlertWithoutRecentSales ==
    \A c \in DOMAIN calls : \A r \in Inventory :
        RecentSales(r) = {} => AlertsOf(calls[c], r) = {}

\* a finished request that asked for the sales of a pair with stock zero
\* whose only sale is older than the window
C3_Witness ==
    \E c \in DOMAIN calls : \E r \in Inventory :
        /\ HasResult(calls[c])
        /\ r.quantity = 0
        /\ RecentSales(r) = {}
        /\ \E s \in Sales : s.product_id = r.product_id /\ s.warehouse_id = r.warehouse_id
        /\ \E i \in Issued(calls[c], "sales") :
               calls[c].lookups[i] = << "sales", r.product_id, r.warehouse_id >>
        /\ AlertsOf(calls[c], r) = {}

(***************************************************************************)
(* C4: in every alert, days_until_stockout is null when no unit was sold   *)
(* in the window, and otherwise the non-negative integer                   *)
(* floor(30 * current_stock / total_quantity_sold); stock 5 with 10 units  *)
(* sold gives 15.  (A division by zero would stop TLC with an error.)      *)
(***************************************************************************)
C4_DaysUntilStockout ==
    \A c \in DOMAIN calls : \A i \in DOMAIN calls[c].alerts :
        LET a == calls[c].alerts[i]
            total == TotalSold(a)
        IN /\ total = 0 => a.days_until_stockout = Null
           /\ total > 0 =>
                /\ a.days_until_stockout = Some((WindowDays * a.current_stock) \div total)
                /\ Val(a.days_until_stockout) \in Nat
           /\ (a.current_stock = 5 /\ total = 10) => a.days_until_stockout = Some(15)

\* the alert of a pair with stock 5 and 10 units sold in the window
C4_Witness ==
    \E c \in DOMAIN calls : \E i \in DOMAIN calls[c].alerts :
        /\ calls[c].alerts[i].current_stock = 5
        /\ TotalSold(calls[c].alerts[i]) = 10
        /\ calls[c].alerts[i].days_until_stockout = Some(15)

(***************************************************************************)
(* C5: in a result, every pair that passes the gates and whose product has *)
(* no supplier has its alert, and that alert has the field supplier with   *)
(* the value null.                                                         *)
(***************************************************************************)
HasNoSupplier(productId) ==
    \A s \in SupplierIds : << productId, s >> \notin ProductSuppliers
C5_NoSupplierGivesNull ==
    \A c \in DOMAIN calls : \A r \in Inventory :
        (/\ HasResult(calls[c])
         /\ Qualifies(r, Param(calls[c]))
         /\ HasNoSupplier(r.product_id)) =>
            /\ AlertsOf(calls[c], r) # {}
            /\ \A i \in AlertsOf(calls[c], r) :
                   /\ "supplier" \in DOMAIN calls[c].alerts[i]
                   /\ calls[c].alerts[i].supplier = Null

\* a response that carries the alert of a product without supplier next to
\* the alert of a product with one
C5_Witness ==
    \E c \in DOMAIN calls :
        /\ calls[c].pc = "responded"
        /\ \E i, j \in DOMAIN calls[c].alerts :
               /\ HasNoSupplier(calls[c].alerts[i].product_id)
               /\ calls[c].alerts[i].supplier = Null
               /\ calls[c].alerts[j].supplier # Null

(***************************************************************************)
(* C6: in every response, total_alerts is the number of elements of        *)
(* alerts, which is the number of qualifying pairs over all warehouses of  *)
(* the company.                                                            *)
(***************************************************************************)
C6_TotalAlerts ==
    \A c \in DOMAIN calls :
        (calls[c].response # Null /\ Val(calls[c].response).status = StatusOk) =>
            LET body == Val(calls[c].response).body
            IN /\ body.total_alerts = Len(body.alerts)
               /\ body.total_alerts = Cardinality(QualifyingPairs(Param(calls[c])))

\* a company with two warehouses, one qualifying product in each: the
\* response has total_alerts = 2
C6_Witness ==
    \E c \in DOMAIN calls :
        /\ calls[c].pc = "responded"
        /\ Cardinality({w \in WarehouseIds : OwnedBy(w, Param(calls[c]))}) = 2
        /\ \A w \in WarehouseIds :
               Cardinality({r \in Inventory : r.warehouse_id = w
                                               /\ Qualifies(r, Param(calls[c]))}) = 1
        /\ Val(calls[c].response).body.total_alerts = 2

(***************************************************************************)
(* C7: for a company without warehouses the request is answered with       *)
(* {alerts: [], total_alerts: 0}; once the warehouse query has returned    *)
(* the empty list the call issues no further lookup and cannot fail.       *)
(***************************************************************************)
NoWarehouse(param) == \A w \in WarehouseIds : ~OwnedBy(w, param)
C7_NoWarehousesGivesEmpty ==
    \A c \in DOMAIN calls :
        (/\ calls[c].pc \notin {"idle", "awaitWarehouses"}
         /\ calls[c].failed # "warehouses"
         /\ NoWarehouse(Param(calls[c]))) =>
            /\ calls[c].pc \in {"forWarehouse", "returned", "responded"}
            /\ calls[c].warehouses = << >>
            /\ calls[c].lookups = << << "warehouses" >> >>
            /\ calls[c].alerts = << >>
            /\ calls[c].pc = "responded" =>
                   calls[c].response =
                       Some([status |-> StatusOk,
                             body |-> [alerts |-> << >>, total_alerts |-> 0]])

\* the response to a request of an existing company that has no warehouse
C7_Witness ==
    \E c \in DOMAIN calls :
        /\ calls[c].pc = "responded"
        /\ Param(calls[c]).numeric
        /\ Param(calls[c]).value \in CompanyIds
        /\ NoWarehouse(Param(calls[c]))
        /\ Val(calls[c].response).body = [alerts |-> << >>, total_alerts |-> 0]

(***************************************************************************)
(* C8: a request whose companyId names no existing company is answered     *)
(* with status 404 and never with a 200 response that carries alerts.      *)
(***************************************************************************)
UnknownCompany(param) == param.numeric /\ param.value \notin CompanyIds
C8_UnknownCompanyIs404 ==
    \A c \in DOMAIN calls :
        (/\ calls[c].response # Null
         /\ calls[c].failed = ""
         /\ UnknownCompany(Param(calls[c]))) =>
            /\ Val(calls[c].response).status = 404
            /\ "alerts" \notin DOMAIN Val(calls[c].response).body

(***************************************************************************)
(* C9: a request whose companyId is malformed is answered with status 400  *)
(* and issues no warehouse, inventory, sales or supplier lookup.           *)
(***************************************************************************)
C9_MalformedIs400 ==
    \A c \in DOMAIN calls :
        (calls[c].pc # "idle" /\ ~Param(calls[c]).numeric) =>
            /\ calls[c].lookups = << >>
            /\ calls[c].response # Null => Val(calls[c].response).status = 400
            /\ calls[c].pc \in {"responded", "rejected"} => calls[c].response # Null

(***************************************************************************)
(* C10: a failed sales or supplier lookup of one pair does not abort the   *)
(* aggregation: the call goes on to the remaining pairs and never ends     *)
(* rejected because of it.                                                 *)
(***************************************************************************)
C10_PairFailureDoesNotAbort ==
    \A c \in DOMAIN calls :
        calls[c].failed \in {"sales", "supplier"} => calls[c].pc # "rejected"

(***************************************************************************)
(* C11: a failed warehouse lookup is a hard failure of the request: it     *)
(* ends with an error response whose body is structured (a kind and a      *)
(* message), no alert is returned and no inventory, sales or supplier      *)
(* lookup follows.                                                         *)
(***************************************************************************)
C11_WarehouseFailureIsStructuredError ==
    \A c \in DOMAIN calls :
        calls[c].failed = "warehouses" =>
            /\ calls[c].lookups = << << "warehouses" >> >>
            /\ calls[c].alerts = << >>
            /\ calls[c].response # Null
            /\ Val(calls[c].response).status \in 400 .. 599
            /\ {"kind", "message"} \subseteq DOMAIN Val(calls[c].response).body

\* the position of warehouse w among the warehouses the call resolved
WarehouseIndex(f, w) == CHOOSE k \in DOMAIN f.warehouses : f.warehouses[k].id = w

(***************************************************************************)
(* C12: the alerts of a result are grouped by warehouse in the order the   *)
(* warehouses were resolved and, within a warehouse, ascend by product id, *)
(* whatever order the inventory lookup returned the rows in.               *)
(***************************************************************************)
C12_SortedByWarehouseThenProduct ==
    \A c \in DOMAIN calls :
        HasResult(calls[c]) =>
            \A i, j \in DOMAIN calls[c].alerts :
                i < j =>
                    LET a == calls[c].alerts[i]
                        b == calls[c].alerts[j]
                    IN /\ WarehouseIndex(calls[c], a.warehouse_id)
                            <= WarehouseIndex(calls[c], b.warehouse_id)
                       /\ a.warehouse_id = b.warehouse_id => a.product_id < b.product_id

\* the alert the store yields for an inventory row, and the alerts a call of
\* `param` returns when it runs alone (C1, C4, C5)
AloneAlert(r) ==
    MakeAlert([quantity |-> r.quantity, Product |-> Product[r.product_id]],
              Warehouse[r.warehouse_id], ThresholdOf(r),
              DaysUntilStockout(r.quantity,
                                GetAverageDailySales(r.product_id, r.warehouse_id)),
              GetSupplierForProduct(r.product_id))
AloneAlerts(param) == {AloneAlert(r) : r \in {x \in Inventory : Qualifies(x, param)}}
\* at every moment a call holds only alerts of its own request, and its
\* result holds each of them once
IndependentResults ==
    /\ \A c \in DOMAIN calls :
        /\ Range(calls[c].alerts) \subseteq
               (IF calls[c].companyId = Null THEN {}
                ELSE AloneAlerts(Param(calls[c])))
        /\ HasResult(calls[c]) =>
               /\ Range(calls[c].alerts) = AloneAlerts(Param(calls[c]))
               /\ Len(calls[c].alerts) = Cardinality(AloneAlerts(Param(calls[c])))
    /\ \A c, d \in DOMAIN calls :
        (/\ calls[c].companyId # Null
         /\ calls[d].companyId # Null
         /\ Param(calls[c]) # Param(calls[d]))
            => Range(calls[c].alerts) \cap Range(calls[d].alerts) = {}

(***************************************************************************)
(* C13: under every interleaving of concurrent calls of fetchLowStockAlerts*)
(* (same or different company ids) at their awaits, no step changes the    *)
(* store, every call returns exactly the alerts it returns when it runs    *)
(* alone, and no alert of one call appears in the result of a call for     *)
(* another company.                                                        *)
(***************************************************************************)
C13_StatelessAndIndependent ==
    [][store' = store /\ IndependentResults']_vars

\* one call has returned an alert of its company while the other call, for
\* another company, is suspended at the await of its supplier lookup, its
\* own first alert about to be pushed
C13_Witness ==
    \E c, d \in DOMAIN calls :
        /\ c # d
        /\ HasResult(calls[c])
        /\ Len(calls[c].alerts) >= 1
        /\ calls[d].pc = "awaitSupplier"
        /\ calls[d].alerts = << >>
        /\ Param(calls[c]) # Param(calls[d])
====
